---- MODULE Spec2Model ----
(***************************************************************************)
(* Model of the seek-ext crate: the blocking extension trait SeekExt       *)
(* (src/src/seek_ext.rs) and the futures StreamLen / StreamPosition        *)
(* (src/src/stream_len.rs, src/src/stream_position.rs) returned by         *)
(* AsyncSeekExt (src/src/async_seek_ext.rs), run against a seekable        *)
(* stream that logs every seek request it receives.                        *)
(***************************************************************************)
EXTENDS Integers, Sequences, FiniteSets, TLC

\* ------------------------------------------------------------------ bounds
MaxLen == 2       \* stream lengths 0..MaxLen
MaxPos == 3       \* cursor positions 0..MaxPos (positions beyond the end included)
MaxNotReady == 3  \* not-ready responses the stream may give in all

\* the stream keeps its last MaxLog requests and polls are counted up to
\* MaxPolls: a query on a stream with MaxNotReady not-ready responses takes
\* at most MaxNotReady + 1 polls of at most three requests
MaxLog == 3 * (MaxNotReady + 1)

MaxPolls == MaxNotReady + 2

\* --------------------------------------------------------------- vocabulary
Kinds == {"Start", "Current", "End"}

NoError == "none"

\* errors a stream may be set up to raise, on one kind of request
Errors == {"NotSeekable", "Interrupted"}

SeekFrom(whence, off) == [whence |-> whence, off |-> off]

Ok(v) == [kind |-> "ok", val |-> v, err |-> NoError]

Err(e) == [kind |-> "err", val |-> 0, err |-> e]

Pending == [kind |-> "pending", val |-> 0, err |-> NoError]

NoResult == [kind |-> "none", val |-> 0, err |-> NoError]

\* ---------------------------------------------------- the seek capability
\* A stream is [len, pos, fail, mode, notReady, armed, log]: its byte length,
\* its cursor, the error it raises for each kind of request (NoError: none),
\* the way it reports not-ready, and the list of the requests it has
\* received with their responses.  A "budget" stream has notReady not-ready
\* responses to give, to any request.  A "repeat" stream starts the
\* operation when it receives a request and reports not-ready, and serves
\* the request when it is repeated: armed is the request it has started.

Target(s, sf) ==
    IF sf.whence = "Start" THEN sf.off
    ELSE IF sf.whence = "End" THEN s.len + sf.off
    ELSE s.pos + sf.off

Logged(s, sf, resp) ==
    LET l == Append(s.log, [whence |-> sf.whence, off |-> sf.off, resp |-> resp]) IN
    [s EXCEPT !.log = IF Len(l) > MaxLog THEN Tail(l) ELSE l]

\* The stream carries out a request: it fails with the error it is set up to
\* raise or on a negative target, and moves the cursor otherwise.
Served(s, sf) ==
    LET t == [s EXCEPT !.armed = <<>>] IN
    IF s.fail[sf.whence] # NoError
    THEN [stream |-> Logged(t, sf, Err(s.fail[sf.whence])),
          res |-> Err(s.fail[sf.whence])]
    ELSE IF Target(s, sf) < 0
    THEN [stream |-> Logged(t, sf, Err("InvalidInput")), res |-> Err("InvalidInput")]
    ELSE [stream |-> Logged([t EXCEPT !.pos = Target(s, sf)], sf, Ok(Target(s, sf))),
          res |-> Ok(Target(s, sf))]

\* One poll_seek request.  For a budget stream, refuse names the kind of
\* request it is not ready for at this moment ("none": ready for
\* everything); a not-ready response leaves the cursor alone.
poll_seek(s, sf, refuse) ==
    IF s.mode = "repeat" /\ s.armed # <<sf>>
    THEN [stream |-> Logged([s EXCEPT !.armed = <<sf>>], sf, Pending),
          res |-> Pending]
    ELSE IF s.mode = "budget" /\ sf.whence = refuse /\ s.notReady > 0
    THEN [stream |-> Logged([s EXCEPT !.notReady = @ - 1], sf, Pending),
          res |-> Pending]
    ELSE Served(s, sf)

\* The blocking seek: the same request, never not-ready.
seek(s, sf) == Served(s, sf)

\* ------------------------------------------------- SeekExt (seek_ext.rs)
\* stream_position that asks for the end instead of the current position
SeekExt_stream_position_FromEnd(s) == seek(s, SeekFrom("End", 0))

SeekExt_stream_position(s) == seek(s, SeekFrom("Current", 0))

\* stream_len that never seeks back
SeekExt_stream_len_NoSeekBack(s) ==
    LET r1 == SeekExt_stream_position(s) IN
    IF r1.res.kind # "ok" THEN r1
    ELSE LET r2 == seek(r1.stream, SeekFrom("End", 0)) IN
         IF r2.res.kind # "ok" THEN r2
         ELSE [stream |-> r2.stream, res |-> Ok(r2.res.val)]

\* stream_len that seeks back without comparing old_pos with len
SeekExt_stream_len_AlwaysSeekBack(s) ==
    LET r1 == SeekExt_stream_position(s) IN
    IF r1.res.kind # "ok" THEN r1
    ELSE LET r2 == seek(r1.stream, SeekFrom("End", 0)) IN
         IF r2.res.kind # "ok" THEN r2
         ELSE LET r3 == seek(r2.stream, SeekFrom("Start", r1.res.val)) IN
              IF r3.res.kind # "ok" THEN r3
              ELSE [stream |-> r3.stream, res |-> Ok(r2.res.val)]

\* stream_len that seeks back to the start of the stream, not to old_pos
SeekExt_stream_len_SeekBackToStart(s) ==
    LET r1 == SeekExt_stream_position(s) IN
    IF r1.res.kind # "ok" THEN r1
    ELSE LET r2 == seek(r1.stream, SeekFrom("End", 0)) IN
         IF r2.res.kind # "ok" THEN r2
         ELSE IF r1.res.val # r2.res.val
              THEN LET r3 == seek(r2.stream, SeekFrom("Start", 0)) IN
                   IF r3.res.kind # "ok" THEN r3
                   ELSE [stream |-> r3.stream, res |-> Ok(r2.res.val)]
              ELSE [stream |-> r2.stream, res |-> Ok(r2.res.val)]

SeekExt_stream_len(s) ==
    LET r1 == SeekExt_stream_position(s) IN
    IF r1.res.kind # "ok" THEN r1
    ELSE
      LET old_pos == r1.res.val
          r2 == seek(r1.stream, SeekFrom("End", 0)) IN
      IF r2.res.kind # "ok" THEN r2
      ELSE
        LET len == r2.res.val IN
        IF old_pos # len
        THEN LET r3 == seek(r2.stream, SeekFrom("Start", old_pos)) IN
             IF r3.res.kind # "ok" THEN r3
             ELSE [stream |-> r3.stream, res |-> Ok(len)]
        ELSE [stream |-> r2.stream, res |-> Ok(len)]

\* --------------------------------- StreamPosition (stream_position.rs)
\* poll that replaces the error of the stream by one of its own
StreamPosition_poll_WrapError(s, refuse) ==
    LET r == poll_seek(s, SeekFrom("Current", 0), refuse) IN
    IF r.res.kind = "err" THEN [r EXCEPT !.res = Err("Other")] ELSE r

StreamPosition_poll(s, refuse) == poll_seek(s, SeekFrom("Current", 0), refuse)

\* ------------------------------------------- StreamLen (stream_len.rs)
\* One call of poll.  The future holds nothing but the borrowed stream, so
\* every call runs the body from its first line.  old_pos is the local of
\* that name: <<>> until the position query of this call has completed.
\* poll that drops the outcome of the seek-back
StreamLen_poll_IgnoreSeekBackResult(s, refuse) ==
    LET r1 == StreamPosition_poll(s, refuse) IN
    IF r1.res.kind # "ok"
    THEN [stream |-> r1.stream, res |-> r1.res, old_pos |-> <<>>]
    ELSE
      LET r2 == poll_seek(r1.stream, SeekFrom("End", 0), refuse) IN
      IF r2.res.kind # "ok"
      THEN [stream |-> r2.stream, res |-> r2.res, old_pos |-> <<r1.res.val>>]
      ELSE
        IF r1.res.val # r2.res.val
        THEN LET r3 == poll_seek(r2.stream, SeekFrom("Start", r1.res.val), refuse) IN
             IF r3.res.kind = "pending"
             THEN [stream |-> r3.stream, res |-> r3.res, old_pos |-> <<r1.res.val>>]
             ELSE [stream |-> r3.stream, res |-> Ok(r2.res.val), old_pos |-> <<r1.res.val>>]
        ELSE [stream |-> r2.stream, res |-> Ok(r2.res.val), old_pos |-> <<r1.res.val>>]

\* poll that never seeks back
StreamLen_poll_NoSeekBack(s, refuse) ==
    LET r1 == StreamPosition_poll(s, refuse) IN
    IF r1.res.kind # "ok"
    THEN [stream |-> r1.stream, res |-> r1.res, old_pos |-> <<>>]
    ELSE
      LET r2 == poll_seek(r1.stream, SeekFrom("End", 0), refuse) IN
      IF r2.res.kind # "ok"
      THEN [stream |-> r2.stream, res |-> r2.res, old_pos |-> <<r1.res.val>>]
      ELSE [stream |-> r2.stream, res |-> Ok(r2.res.val), old_pos |-> <<r1.res.val>>]

StreamLen_poll(s, refuse) ==
    LET r1 == StreamPosition_poll(s, refuse) IN
    IF r1.res.kind # "ok"
    THEN [stream |-> r1.stream, res |-> r1.res, old_pos |-> <<>>]
    ELSE
      LET old_pos == r1.res.val
          r2 == poll_seek(r1.stream, SeekFrom("End", 0), refuse) IN
      IF r2.res.kind # "ok"
      THEN [stream |-> r2.stream, res |-> r2.res, old_pos |-> <<old_pos>>]
      ELSE
        LET len == r2.res.val IN
        IF old_pos # len
        THEN LET r3 == poll_seek(r2.stream, SeekFrom("Start", old_pos), refuse) IN
             IF r3.res.kind # "ok"
             THEN [stream |-> r3.stream, res |-> r3.res, old_pos |-> <<old_pos>>]
             ELSE [stream |-> r3.stream, res |-> Ok(len), old_pos |-> <<old_pos>>]
        ELSE [stream |-> r2.stream, res |-> Ok(len), old_pos |-> <<old_pos>>]

\* -------------------------------------------------------------- the state
VARIABLES
    stream,     \* the seekable stream the operations are called on
    fut,        \* the future borrowing the stream: "none", "StreamLen", "StreamPosition"
    op,         \* the operation started last
    status,     \* "idle", "inflight", "done" or "dropped"
    result,     \* what the last call or poll of op returned
    startPos,   \* the cursor when op started
    polls,      \* number of polls of the future of op so far
    pollStart,  \* number of log entries that precede those of the latest poll
    old_pos,    \* the local old_pos of the latest StreamLen poll
    captured,   \* the value the position query of op returned the first time
    prev,       \* op, result and cursor of the operation completed before op
    lastLen     \* the length returned by the stream_len that came before op,
                \* with nothing but changes of the length in between

vars == <<stream, fut, op, status, result, startPos, polls, pollStart,
          old_pos, captured, prev, lastLen>>

Refusals == Kinds \cup {"none"}

\* a stream raises no error, or one error on one kind of request
Faults ==
    { [k \in Kinds |-> IF k = f THEN e ELSE NoError] : f \in Kinds, e \in Errors }
    \cup { [k \in Kinds |-> NoError] }

UserSeeks ==
    { SeekFrom("Start", n) : n \in 0..MaxPos }
    \cup { SeekFrom(w, d) : w \in {"Current", "End"}, d \in -1..1 }

LenOps == {"stream_len", "async_stream_len"}

Streams ==
    [len : 0..MaxLen, pos : 0..MaxPos, fail : Faults, mode : {"budget"},
     notReady : 0..MaxNotReady, armed : {<<>>}, log : {<<>>}]
    \cup
    [len : 0..MaxLen, pos : 0..MaxPos, fail : Faults, mode : {"repeat"},
     notReady : {0}, armed : {<<>>}, log : {<<>>}]

\* polls are counted up to MaxPolls
Count(n) == IF n < MaxPolls THEN n + 1 ELSE n

Fresh(s) == [s EXCEPT !.log = <<>>]

Summary == [op |-> op, status |-> status, result |-> result, pos |-> stream.pos]

Init ==
    /\ stream \in Streams
    /\ fut = "none"
    /\ op = "none"
    /\ status = "idle"
    /\ result = NoResult
    /\ startPos = stream.pos
    /\ polls = 0
    /\ pollStart = 0
    /\ old_pos = <<>>
    /\ captured = <<>>
    /\ prev = [op |-> "none", status |-> "idle", result |-> NoResult, pos |-> stream.pos]
    /\ lastLen = <<>>

\* A blocking call: runs to completion in one step.
Begin(name) ==
    /\ fut = "none"
    /\ op' = name
    /\ startPos' = stream.pos
    /\ polls' = 0
    /\ pollStart' = 0
    /\ old_pos' = <<>>
    /\ captured' = <<>>
    /\ prev' = Summary
    /\ lastLen' = IF op \in LenOps /\ status = "done" /\ result.kind = "ok"
                  THEN <<result.val>>
                  ELSE IF op = "set_len" THEN lastLen ELSE <<>>

\* c.seek(..) as the tests call it between queries.
UserSeek(sf) ==
    /\ Begin("seek")
    /\ Target(stream, sf) <= MaxPos
    /\ LET r == seek(Fresh(stream), sf) IN
         /\ stream' = r.stream
         /\ result' = r.res
    /\ status' = "done"
    /\ fut' = "none"

CallStreamPosition ==
    /\ Begin("stream_position")
    /\ LET r == SeekExt_stream_position(Fresh(stream)) IN
         /\ stream' = r.stream
         /\ result' = r.res
    /\ status' = "done"
    /\ fut' = "none"

\* The owner of the stream makes it longer or shorter between two queries.
SetLen(n) ==
    /\ Begin("set_len")
    /\ n # stream.len
    /\ stream' = [Fresh(stream) EXCEPT !.len = n]
    /\ result' = NoResult
    /\ status' = "done"
    /\ fut' = "none"

\* a stream_len that answers from the length it returned before
CallStreamLen_Cached ==
    /\ Begin("stream_len")
    /\ LET r == IF lastLen = <<>> THEN SeekExt_stream_len(Fresh(stream))
                ELSE [stream |-> Fresh(stream), res |-> Ok(lastLen[1])] IN
         /\ stream' = r.stream
         /\ result' = r.res
    /\ status' = "done"
    /\ fut' = "none"

CallStreamLen ==
    /\ Begin("stream_len")
    /\ LET r == SeekExt_stream_len(Fresh(stream)) IN
         /\ stream' = r.stream
         /\ result' = r.res
    /\ status' = "done"
    /\ fut' = "none"

\* AsyncSeekExt::stream_position / stream_len: build the future, no request yet.
NewStreamPosition ==
    /\ Begin("async_stream_position")
    /\ stream' = Fresh(stream)
    /\ result' = NoResult
    /\ status' = "inflight"
    /\ fut' = "StreamPosition"

NewStreamLen ==
    /\ Begin("async_stream_len")
    /\ stream' = Fresh(stream)
    /\ result' = NoResult
    /\ status' = "inflight"
    /\ fut' = "StreamLen"

Settle(res) ==
    /\ result' = res
    /\ status' = IF res.kind = "pending" THEN "inflight" ELSE "done"
    /\ fut' = IF res.kind = "pending" THEN fut ELSE "none"

PollStreamPosition(refuse) ==
    /\ fut = "StreamPosition"
    /\ LET r == StreamPosition_poll(stream, refuse) IN
         /\ stream' = r.stream
         /\ Settle(r.res)
         /\ captured' = IF captured = <<>> /\ r.res.kind = "ok"
                        THEN <<r.res.val>> ELSE captured
         /\ pollStart' = Len(r.stream.log)
                            - Len(StreamPosition_poll(Fresh(stream), refuse).stream.log)
    /\ polls' = Count(polls)
    /\ UNCHANGED <<op, startPos, old_pos, prev, lastLen>>

PollStreamLen(refuse) ==
    /\ fut = "StreamLen"
    /\ LET r == StreamLen_poll(stream, refuse) IN
         /\ stream' = r.stream
         /\ Settle(r.res)
         /\ old_pos' = r.old_pos
         /\ captured' = IF captured = <<>> THEN r.old_pos ELSE captured
         /\ pollStart' = Len(r.stream.log)
                            - Len(StreamLen_poll(Fresh(stream), refuse).stream.log)
    /\ polls' = Count(polls)
    /\ UNCHANGED <<op, startPos, prev, lastLen>>

\* a drop that seeks back to the position the query started from
DropFuture_Rollback ==
    /\ fut # "none"
    /\ fut' = "none"
    /\ status' = "dropped"
    /\ stream' = seek(stream, SeekFrom("Start", startPos)).stream
    /\ UNCHANGED <<op, result, startPos, polls, pollStart, old_pos, captured, prev,
                   lastLen>>

\* Dropping the future before it completed: the borrow ends, nothing else.
DropFuture ==
    /\ fut # "none"
    /\ fut' = "none"
    /\ status' = "dropped"
    /\ UNCHANGED <<stream, op, result, startPos, polls, pollStart, old_pos,
                   captured, prev, lastLen>>

Next ==
    \/ \E sf \in UserSeeks : UserSeek(sf)
    \/ \E n \in 0..MaxLen : SetLen(n)
    \/ CallStreamPosition
    \/ CallStreamLen
    \/ NewStreamPosition
    \/ NewStreamLen
    \/ \E refuse \in Refusals : PollStreamPosition(refuse)
    \/ \E refuse \in Refusals : PollStreamLen(refuse)
    \/ DropFuture

Spec == Init /\ [][Next]_vars

\* The streams that never fail, for the claims that assume one.
LiveInit == Init /\ \A k \in Kinds : stream.fail[k] = NoError

\* Non-blocking stream_len queries, one after the other, on such a stream.
LiveNext ==
    \/ NewStreamLen
    \/ \E refuse \in Refusals : PollStreamLen(refuse)
    \/ DropFuture

\* The task that awaits a stream_len keeps polling it.
FairSpec ==
    /\ LiveInit
    /\ [][LiveNext]_vars
    /\ WF_vars(\E refuse \in Refusals : PollStreamLen(refuse))

\* ------------------------------------------------------- reading the log
Requests(log) == [i \in 1..Len(log) |-> SeekFrom(log[i].whence, log[i].off)]

NoFailure(log) == \A i \in 1..Len(log) : log[i].resp.kind # "err"

AlwaysReady(log) == \A i \in 1..Len(log) : log[i].resp.kind # "pending"

Completions(log, k) ==
    { i \in 1..Len(log) : log[i].whence = k /\ log[i].resp.kind = "ok" }

\* the stream as it was when op started, with an empty log
StartStream == [stream EXCEPT !.pos = startPos, !.log = <<>>]

\* ------------------------------------------------------------------- C1
\* C1: a blocking stream_len in which no seek fails returns the length of
\* the stream and leaves the cursor where it was, for every starting
\* position (0, the end, beyond the end); a stream_position() that follows
\* returns that starting position.
C1_BlockingLenPreservesPosition ==
    /\ (op = "stream_len" /\ status = "done" /\ NoFailure(stream.log))
          => /\ result = Ok(stream.len)
             /\ stream.pos = startPos
    /\ (/\ op = "stream_position" /\ status = "done" /\ result.kind = "ok"
        /\ prev.op = "stream_len" /\ prev.result.kind = "ok")
          => /\ result.val = prev.pos
             /\ stream.pos = prev.pos

C1_Witness ==
    /\ op = "stream_position" /\ status = "done" /\ result.kind = "ok"
    /\ prev.op = "stream_len" /\ prev.result.kind = "ok"
    /\ prev.pos > stream.len
    /\ result.val = prev.pos

\* ------------------------------------------------------------------- C2
\* C2: a non-blocking stream_len that completes with Ok returns the length
\* of the stream and leaves the cursor where it was when the query began,
\* whatever not-ready responses the stream gave on the way.
C2_AsyncLenPreservesPosition ==
    (op = "async_stream_len" /\ status = "done" /\ result.kind = "ok")
       => /\ result.val = stream.len
          /\ stream.pos = startPos

\* ------------------------------------------------------------------- C3
\* C3: once the position query of a non-blocking stream_len has completed,
\* no later poll of that query starts again with the position query.
C3_NoRestartAtStepOne ==
    (/\ op = "async_stream_len" /\ polls >= 1
     /\ \E i \in 1..pollStart : i \in Completions(stream.log, "Current"))
       => stream.log[pollStart + 1].whence # "Current"

\* ------------------------------------------------------------------- C4
\* C4: the position a non-blocking stream_len compares with the length and
\* seeks back to is the value its position query returned the first time it
\* completed, in every later poll of the query.
C4_CapturedPositionKept ==
    (op = "async_stream_len" /\ old_pos # <<>>)
       => /\ old_pos = captured
          /\ \A i \in 1..Len(stream.log) :
                stream.log[i].whence = "Start" => <<stream.log[i].off>> = captured

\* ------------------------------------------------------------------- C5
\* C5: within one non-blocking stream_len, each of the three seeks
\* (Current, 0), (End, 0), (Start, P) completes at most once.
C5_EachStepCompletesOnce ==
    op = "async_stream_len"
       => \A k \in Kinds : Cardinality(Completions(stream.log, k)) <= 1

\* ------------------------------------------------------------------- C6
\* the stream reported not-ready exactly once per step: the first request
\* of every kind it received was answered not-ready, and no other was
OncePerStep(log) ==
    \A i \in 1..Len(log) :
        (log[i].resp.kind = "pending")
            <=> (\A j \in 1..(i - 1) : log[j].whence # log[i].whence)

\* the same query polled on the same stream when it is always ready
ReadyRun ==
    StreamLen_poll([StartStream EXCEPT !.mode = "budget", !.notReady = 0, !.armed = <<>>],
                   "none")

\* C6: a non-blocking stream_len on a stream that reports not-ready once per
\* step returns the same result and leaves the same final position as the
\* same query on a stream that is always ready.
C6_OncePerStepSameAsReady ==
    (op = "async_stream_len" /\ status = "done" /\ OncePerStep(stream.log))
       => /\ result = ReadyRun.res
          /\ stream.pos = ReadyRun.stream.pos

\* ------------------------------------------------------------------- C7
\* C7: when the cursor is at the end of the stream as stream_len starts and
\* no seek fails, the stream receives exactly two requests, (Current, 0)
\* then (End, 0), and no (Start, _); for the blocking stream_len and for
\* the non-blocking one on a stream that is always ready.
C7_TwoSeeksAtEnd ==
    (/\ op \in {"stream_len", "async_stream_len"} /\ status = "done"
     /\ startPos = stream.len
     /\ NoFailure(stream.log) /\ AlwaysReady(stream.log))
       => Requests(stream.log) = <<SeekFrom("Current", 0), SeekFrom("End", 0)>>

C7_Witness ==
    /\ op = "async_stream_len" /\ status = "done"
    /\ startPos = stream.len /\ stream.len > 0
    /\ result = Ok(stream.len)
    /\ AlwaysReady(stream.log)
    /\ Len(stream.log) = 2
    /\ prev.op = "stream_len" /\ prev.result = Ok(stream.len)

\* ------------------------------------------------------------------- C8
\* C8: stream_len, blocking or not, fails fast: a seek that fails is the
\* last request of the query, the query ends there and returns that very
\* error; an error the query returns is the one its last request raised.
C8_FailFast ==
    op \in {"stream_len", "async_stream_len"}
       => /\ \A i \in 1..Len(stream.log) :
                stream.log[i].resp.kind = "err"
                   => /\ i = Len(stream.log)
                      /\ status = "done"
                      /\ result = stream.log[i].resp
          /\ result.kind = "err"
                => /\ Len(stream.log) > 0
                   /\ result = stream.log[Len(stream.log)].resp

C8_Witness ==
    /\ op = "async_stream_len" /\ status = "done"
    /\ polls >= 2
    /\ stream.log[Len(stream.log)].whence = "Start"
    /\ result = Err("Interrupted")

\* ------------------------------------------------------------------- C9
\* C9: stream_position, blocking or not, returns the cursor and leaves it
\* where it was; two calls in a row with no seek in between return the same
\* value.
PositionOps == {"stream_position", "async_stream_position"}

C9_PositionIdempotent ==
    /\ (op \in PositionOps /\ NoFailure(stream.log)) => stream.pos = startPos
    /\ (op \in PositionOps /\ status = "done" /\ result.kind = "ok")
          => result.val = startPos
    /\ (/\ op \in PositionOps /\ status = "done" /\ result.kind = "ok"
        /\ prev.op \in PositionOps /\ prev.status = "done" /\ prev.result.kind = "ok")
          => /\ result.val = prev.result.val
             /\ stream.pos = prev.pos

C9_Witness ==
    /\ op = "async_stream_position" /\ status = "done" /\ result.kind = "ok"
    /\ polls >= 2
    /\ prev.op = "stream_position" /\ prev.status = "done" /\ prev.result.kind = "ok"
    /\ result.val = prev.result.val /\ result.val > 0

\* ------------------------------------------------------------------ C10
\* the blocking stream_len called on the stream as it was when op started
BlockingRun == SeekExt_stream_len(StartStream)

\* C10: on a stream that is always ready, the non-blocking stream_len sends
\* the same requests, returns the same value or error and leaves the same
\* final position as the blocking stream_len on the same stream.
C10_AsyncMatchesBlocking ==
    (op = "async_stream_len" /\ status = "done" /\ AlwaysReady(stream.log))
       => /\ Requests(stream.log) = Requests(BlockingRun.stream.log)
          /\ result = BlockingRun.res
          /\ stream.pos = BlockingRun.stream.pos

C10_Witness ==
    /\ op = "async_stream_len" /\ status = "done" /\ AlwaysReady(stream.log)
    /\ polls = 1
    /\ Len(stream.log) = 3
    /\ result = Ok(stream.len)
    /\ stream.pos = startPos

\* ------------------------------------------------------------------ C11
\* C11: a blocking stream_len in which no seek fails and that starts away
\* from the end sends exactly (Current, 0), (End, 0), (Start, P), P being
\* the value the first request returned; a (Start, _) request is sent if
\* and only if the value of the first request differs from that of the
\* second.
C11_ThreeSeeksInOrder ==
    (op = "stream_len" /\ status = "done" /\ NoFailure(stream.log))
       => /\ startPos # stream.len
             => Requests(stream.log)
                  = << SeekFrom("Current", 0), SeekFrom("End", 0),
                       SeekFrom("Start", stream.log[1].resp.val) >>
          /\ (\E i \in 1..Len(stream.log) : stream.log[i].whence = "Start")
                <=> stream.log[1].resp.val # stream.log[2].resp.val

C11_Witness ==
    /\ op = "stream_len" /\ status = "done" /\ NoFailure(stream.log)
    /\ startPos > 0 /\ startPos # stream.len
    /\ Len(stream.log) = 3
    /\ stream.log[3].whence = "Start" /\ stream.log[3].off = startPos

\* ------------------------------------------------------------------ C12
\* C12: stream_position sends one request, (Current, 0), and returns its
\* outcome as it is, offset or error; every poll of the non-blocking form
\* sends that one request and returns its response, not-ready included.
C12_PositionIsOneSeek ==
    /\ (op = "stream_position" /\ status = "done")
          => /\ Requests(stream.log) = <<SeekFrom("Current", 0)>>
             /\ result = stream.log[1].resp
    /\ op = "async_stream_position"
          => /\ Len(stream.log) = polls
             /\ \A i \in 1..Len(stream.log) :
                   /\ Requests(stream.log)[i] = SeekFrom("Current", 0)
                   /\ i < Len(stream.log) => stream.log[i].resp = Pending
             /\ polls >= 1 => result = stream.log[polls].resp

C12_Witness ==
    /\ op = "async_stream_position" /\ status = "done"
    /\ polls >= 2
    /\ result = Err("NotSeekable")
    /\ prev.op = "stream_position" /\ prev.result = Err("NotSeekable")

\* ------------------------------------------------------------------ C13
\* the value of the last request of the log that completed, the starting
\* position when none did
LastCompleted(log) ==
    LET done == { i \in 1..Len(log) : log[i].resp.kind = "ok" } IN
    IF done = {} THEN startPos
    ELSE log[CHOOSE i \in done : \A j \in done : j <= i].resp.val

\* C13: dropping a non-blocking stream_len before it completed sends no
\* request and does not seek back: the stream, its cursor and its log are
\* what they were before the drop, the cursor being where the last
\* completed seek put it.
C13_DropLeavesStream ==
    /\ [][status' = "dropped" => stream' = stream]_vars
    /\ []((op = "async_stream_len" /\ status = "dropped")
             => stream.pos = LastCompleted(stream.log))

C13_Witness ==
    /\ op = "async_stream_len" /\ status = "dropped"
    /\ startPos # stream.len
    /\ stream.pos = stream.len
    /\ stream.log[Len(stream.log)].whence = "Start"
    /\ stream.log[Len(stream.log)].resp = Pending

\* ------------------------------------------------------------------ C14
\* C14: every stream_len that returns a length has sent its own (End, 0)
\* request and returns the value of that request, the length the stream has
\* at that moment; after the length of the stream changed, the next call
\* returns the new length, not the one returned before.
C14_LengthNotCached ==
    (op \in LenOps /\ status = "done" /\ result.kind = "ok")
       => /\ \E i \in 1..Len(stream.log) :
                /\ Requests(stream.log)[i] = SeekFrom("End", 0)
                /\ stream.log[i].resp = result
          /\ result.val = stream.len

C14_Witness ==
    /\ op = "stream_len" /\ status = "done" /\ result.kind = "ok"
    /\ prev.op = "set_len"
    /\ lastLen # <<>>
    /\ lastLen[1] # result.val
    /\ result.val = stream.len

\* ------------------------------------------------------------------ C15
NeverFails == \A k \in Kinds : stream.fail[k] = NoError

\* C15: on a stream that never fails and reports not-ready finitely often
\* for each step (once, ready when the request is repeated), a non-blocking
\* stream_len that keeps being polled eventually completes with Ok, unless
\* it is dropped.
C15_EventuallyCompletes ==
    (fut = "StreamLen" /\ NeverFails)
        ~> \/ status = "done" /\ result.kind = "ok"
           \/ status = "dropped"

====
